---- MODULE Spec2Model ----
(***************************************************************************)
(* bevy-renderdoc-capture (src/src/lib.rs): the capture-request latch       *)
(* (RenderDocData.capture_requested, an Arc<AtomicBool>), the capture       *)
(* session flag (RenderDocData.is_capture_active), the two render-world     *)
(* systems start_capture and after_render_end_capture, the PostUpdate key   *)
(* hook and RenderDocPlugin::build, which wires them into the host app.     *)
(*                                                                          *)
(* The specifications, over the same state:                                 *)
(*   Spec          the application exactly as RenderDocPlugin::build        *)
(*                 leaves it (build inserts RenderDocData in the render     *)
(*                 world and inserts no RenderDocTrigger anywhere);         *)
(*   SpecWired     the render-world controller driven through its           *)
(*                 schedule, with a holder of a RenderDocTrigger whose      *)
(*                 Arc is RenderDocData.capture_requested calling           *)
(*                 capture() at any moment from any thread;                 *)
(*   SpecWiredFair SpecWired with the render stages of an extracted         *)
(*                 cycle always run to the end;                             *)
(*   SpecAnyOrder  the two systems and capture() invoked in any order,      *)
(*                 without the ordering the schedules impose.               *)
(***************************************************************************)
EXTENDS Integers, Sequences, FiniteSets, TLC

\* ------------------------------------------------------------------ bounds
MaxFrames == 11
MaxEvents == 2
MaxOps == 6
HeldFrames == 10

\* --------------------------------------------------------------- constants
Keys == {"F10", "F12"}
NoKey == "None"
DefaultKey == "F10"

VARIABLES
    key_code,           \* RenderDocPlugin.key_code: NoKey or a key
    my_system,          \* the app added the crate docs' my_system to Update
    app,                \* "constructed", "running", "panicked"
    systems,            \* systems RenderDocPlugin::build registered
    resources,          \* resources RenderDocPlugin::build inserted
    capture_requested,  \* RenderDocData.capture_requested (the latch)
    is_capture_active,  \* RenderDocData.is_capture_active
    begins,             \* native start_frame_capture calls made so far
    ends,               \* native end_frame_capture calls made so far
    events,             \* keyboard events not yet read by the input system
    pressed,            \* ButtonInput<KeyCode>: keys currently pressed
    just_pressed,       \* ButtonInput<KeyCode>: keys pressed this frame
    frame,              \* the frame the main schedule is working on
    mainPc,             \* position of the main schedule in its frame
    renderPc,           \* position of the render sub-app in its cycle
    requestedIn,        \* history: frame during which a capture was last requested
    requestedAt,        \* history: position of the render sub-app at that request
    beganIn,            \* history: frame whose extraction last began a capture
    held,               \* history: consecutive hook runs with the bound key pressed
    hookCalls,          \* history: capture() calls of the hook during this hold
    trace               \* history: latch operations, "R" request, "T"/"F" consume result

vars == <<key_code, my_system, app, systems, resources, capture_requested,
          is_capture_active, begins, ends, events, pressed, just_pressed,
          frame, mainPc, renderPc, requestedIn, requestedAt, beganIn, held, hookCalls, trace>>

\* ---------------------------------------------------------------- plugin
\* RenderDocPlugin::default()
Default == DefaultKey

\* RenderDocPlugin::new_with_trigger_key(key_code)
new_with_trigger_key(k) == k

\* RenderDocPlugin::new_without_trigger()
new_without_trigger == NoKey

\* ----------------------------------------------------------------- latch
\* Variant: the latch is read but not cleared (a load in place of fetch_and).
fetch_and_keep(old, v) == [ret |-> old, new |-> old]

\* AtomicBool::fetch_and(v): one atomic step, returns the old value.
fetch_and(old, v) == [ret |-> old, new |-> (old /\ v)]

\* Variant: the latch is read but not written (a load in place of store).
capture_load(latch) == latch

\* RenderDocTrigger::capture: store(true) on the shared AtomicBool.
capture(latch) == TRUE

\* ------------------------------------------------------------ controller
\* Variant: is_capture_active is set whether or not a request was pending.
start_capture_sets_flag(d) ==
    LET r == fetch_and(d.capture_requested, FALSE) IN
    IF r.ret
    THEN [capture_requested |-> r.new, is_capture_active |-> TRUE,
          started |-> 1, consumed |-> r.ret]
    ELSE [capture_requested |-> r.new, is_capture_active |-> TRUE,
          started |-> 0, consumed |-> r.ret]

\* start_capture: read-and-clear the latch; when it was set, mark the
\* session active and call the native start_frame_capture.
start_capture(d) ==
    LET r == fetch_and(d.capture_requested, FALSE) IN
    IF r.ret
    THEN [capture_requested |-> r.new, is_capture_active |-> TRUE,
          started |-> 1, consumed |-> r.ret]
    ELSE [capture_requested |-> r.new, is_capture_active |-> d.is_capture_active,
          started |-> 0, consumed |-> r.ret]

\* Variant: the native end call is made but is_capture_active is not reset.
after_render_end_capture_keeps_flag(d) ==
    IF ~d.is_capture_active
    THEN [capture_requested |-> d.capture_requested,
          is_capture_active |-> d.is_capture_active, ended |-> 0]
    ELSE [capture_requested |-> d.capture_requested,
          is_capture_active |-> d.is_capture_active, ended |-> 1]

\* Variant: the early return is taken when a session IS active.
after_render_end_capture_inverted(d) ==
    IF d.is_capture_active
    THEN [capture_requested |-> d.capture_requested,
          is_capture_active |-> d.is_capture_active, ended |-> 0]
    ELSE [capture_requested |-> d.capture_requested,
          is_capture_active |-> FALSE, ended |-> 1]

\* Variant: ending a session also clears the request latch.
after_render_end_capture_clears_latch(d) ==
    IF ~d.is_capture_active
    THEN [capture_requested |-> d.capture_requested,
          is_capture_active |-> d.is_capture_active, ended |-> 0]
    ELSE [capture_requested |-> FALSE,
          is_capture_active |-> FALSE, ended |-> 1]

\* Variant: no early return, the native end call is made in every cycle.
after_render_end_capture_unconditional(d) ==
    [capture_requested |-> d.capture_requested,
     is_capture_active |-> FALSE, ended |-> 1]

\* after_render_end_capture: nothing when no session is active; otherwise
\* clear the flag and call the native end_frame_capture.
after_render_end_capture(d) ==
    IF ~d.is_capture_active
    THEN [capture_requested |-> d.capture_requested,
          is_capture_active |-> d.is_capture_active, ended |-> 0]
    ELSE [capture_requested |-> d.capture_requested,
          is_capture_active |-> FALSE, ended |-> 1]

\* The RenderDocData resource of the render world.
RenderDocData == [capture_requested |-> capture_requested,
                  is_capture_active |-> is_capture_active]

\* ----------------------------------------------------------------- input
\* ButtonInput::press / ButtonInput::release applied to one keyboard event.
ApplyEvent(st, e) ==
    IF e[2] = "Pressed"
    THEN [pressed |-> st.pressed \cup {e[1]},
          just_pressed |-> IF e[1] \in st.pressed THEN st.just_pressed
                           ELSE st.just_pressed \cup {e[1]}]
    ELSE [pressed |-> st.pressed \ {e[1]}, just_pressed |-> st.just_pressed]

RECURSIVE ApplyEvents(_, _)
ApplyEvents(st, es) ==
    IF es = <<>> THEN st ELSE ApplyEvents(ApplyEvent(st, Head(es)), Tail(es))

\* keyboard_input_system: forget last frame's just_pressed, then apply the
\* frame's events in order.
keyboard_input(p, es) == ApplyEvents([pressed |-> p, just_pressed |-> {}], es)

\* The PostUpdate closure's body: keys.just_pressed(key_code) => trigger.capture()
key_hook_fires(jp, k) == k \in jp

\* A system parameter Res<RenderDocTrigger> is satisfied only when the
\* resource is in the world; otherwise the host either panics or skips
\* the system, depending on its version and error handler.
ParamOutcomes == {"panic", "skip"}

\* --------------------------------------------------------- Spec: the app
Init ==
    /\ key_code \in {Default, new_with_trigger_key("F10"),
                     new_with_trigger_key("F12"), new_without_trigger}
    /\ my_system \in BOOLEAN
    /\ app = "constructed"
    /\ systems = {}
    /\ resources = {}
    /\ capture_requested = FALSE
    /\ is_capture_active = FALSE
    /\ begins = 0
    /\ ends = 0
    /\ events = <<>>
    /\ pressed = {}
    /\ just_pressed = {}
    /\ frame = 1
    /\ mainPc = "PreUpdate"
    /\ renderPc = "Idle"
    /\ requestedIn = 0
    /\ requestedAt = "Idle"
    /\ beganIn = 0
    /\ held = 0
    /\ hookCalls = 0
    /\ trace = <<>>

\* RenderDocPlugin::build, RenderDoc::new() returned Err: log and return.
BuildErr ==
    /\ app = "constructed"
    /\ app' = "running"
    /\ UNCHANGED <<key_code, my_system, systems, resources, capture_requested,
                   is_capture_active, begins, ends, events, pressed,
                   just_pressed, frame, mainPc, renderPc, requestedIn, requestedAt,
                   beganIn, held, hookCalls, trace>>

\* The systems build registers when RenderDoc::new() returned Ok.
build_systems(k) ==
    {"start_capture", "after_render_end_capture"}
        \cup (IF k # NoKey THEN {"key_hook"} ELSE {})

\* The resources build inserts when RenderDoc::new() returned Ok.
build_resources == {"RenderDocData"}

\* RenderDocPlugin::build, RenderDoc::new() returned Ok.
BuildOk ==
    /\ app = "constructed"
    /\ app' = "running"
    /\ systems' = build_systems(key_code)
    /\ resources' = build_resources
    /\ capture_requested' = FALSE
    /\ is_capture_active' = FALSE
    /\ UNCHANGED <<key_code, my_system, begins, ends, events, pressed,
                   just_pressed, frame, mainPc, renderPc, requestedIn, requestedAt,
                   beganIn, held, hookCalls, trace>>

\* The window system queues a keyboard event (a repeat of a held key is
\* another Pressed event).
KeyEvent ==
    /\ app = "running"
    /\ Len(events) < MaxEvents
    /\ \E k \in Keys, s \in {"Pressed", "Released"} :
          events' = Append(events, <<k, s>>)
    /\ UNCHANGED <<key_code, my_system, app, systems, resources,
                   capture_requested, is_capture_active, begins, ends, pressed,
                   just_pressed, frame, mainPc, renderPc, requestedIn, requestedAt,
                   beganIn, held, hookCalls, trace>>

\* History: the frame's events release key k (its hold is over).
Released(es, k) == \E i \in 1..Len(es) : es[i] = <<k, "Released">>

\* PreUpdate: keyboard_input_system updates ButtonInput<KeyCode>.
PreUpdate ==
    /\ app = "running"
    /\ mainPc = "PreUpdate"
    /\ LET st == keyboard_input(pressed, events) IN
          /\ pressed' = st.pressed
          /\ just_pressed' = st.just_pressed
    /\ events' = <<>>
    /\ held' = IF Released(events, key_code) THEN 0 ELSE held
    /\ hookCalls' = IF Released(events, key_code) THEN 0 ELSE hookCalls
    /\ mainPc' = "Update"
    /\ UNCHANGED <<key_code, my_system, app, systems, resources,
                   capture_requested, is_capture_active, begins, ends, frame,
                   renderPc, requestedIn, requestedAt, beganIn, trace>>

\* Update: the crate docs' my_system(trigger: Res<RenderDocTrigger>), whose
\* body calls trigger.capture().
Update ==
    /\ app = "running"
    /\ mainPc = "Update"
    /\ IF ~my_system
       THEN /\ mainPc' = "PostUpdate"
            /\ UNCHANGED <<app, capture_requested, requestedIn, requestedAt, trace>>
       ELSE IF "RenderDocTrigger" \in resources
       THEN /\ capture_requested' = capture(capture_requested)
            /\ requestedIn' = frame
            /\ requestedAt' = renderPc
            /\ trace' = Append(trace, "R")
            /\ mainPc' = "PostUpdate"
            /\ app' = app
       ELSE /\ \E o \in ParamOutcomes :
                  /\ app' = IF o = "panic" THEN "panicked" ELSE app
                  /\ mainPc' = IF o = "panic" THEN mainPc ELSE "PostUpdate"
            /\ requestedIn' = frame
            /\ requestedAt' = renderPc
            /\ UNCHANGED <<capture_requested, trace>>
    /\ UNCHANGED <<key_code, my_system, systems, resources, is_capture_active,
                   begins, ends, events, pressed, just_pressed, frame,
                   renderPc, beganIn, held, hookCalls>>

\* History of the hook: how long the bound key has been held at hook time
\* and how many capture() calls the hook made during that hold.
HeldAfter == IF key_code \in pressed THEN held + 1 ELSE 0
CallsAfter(called) ==
    IF key_code \in pressed
    THEN (IF held = 0 THEN 0 ELSE hookCalls) + (IF called THEN 1 ELSE 0)
    ELSE 0

\* PostUpdate: the closure build registers when key_code is Some(key),
\* |keys: Res<ButtonInput<KeyCode>>, trigger: Res<RenderDocTrigger>|.
PostUpdate ==
    /\ app = "running"
    /\ mainPc = "PostUpdate"
    /\ IF "key_hook" \notin systems
       THEN /\ mainPc' = "Done"
            /\ UNCHANGED <<app, capture_requested, trace, held, hookCalls>>
       ELSE IF "RenderDocTrigger" \in resources
       THEN /\ capture_requested' =
                  IF key_hook_fires(just_pressed, key_code)
                  THEN capture(capture_requested) ELSE capture_requested
            /\ trace' = IF key_hook_fires(just_pressed, key_code)
                        THEN Append(trace, "R") ELSE trace
            /\ held' = HeldAfter
            /\ hookCalls' = CallsAfter(key_hook_fires(just_pressed, key_code))
            /\ mainPc' = "Done"
            /\ app' = app
       ELSE /\ \E o \in ParamOutcomes :
                  /\ app' = IF o = "panic" THEN "panicked" ELSE app
                  /\ mainPc' = IF o = "panic" THEN mainPc ELSE "Done"
            /\ held' = HeldAfter
            /\ hookCalls' = CallsAfter(FALSE)
            /\ UNCHANGED <<capture_requested, trace>>
    /\ UNCHANGED <<key_code, my_system, systems, resources, is_capture_active,
                   begins, ends, events, pressed, just_pressed, frame,
                   renderPc, requestedIn, requestedAt, beganIn>>

\* The effect of ExtractSchedule on the render world: start_capture when
\* build registered it.
RunExtractSchedule ==
    IF "start_capture" \in systems
    THEN LET r == start_capture(RenderDocData) IN
         /\ capture_requested' = r.capture_requested
         /\ is_capture_active' = r.is_capture_active
         /\ begins' = begins + r.started
         /\ beganIn' = IF r.started = 1 THEN frame ELSE beganIn
         /\ trace' = Append(trace, IF r.consumed THEN "T" ELSE "F")
    ELSE UNCHANGED <<capture_requested, is_capture_active, begins, beganIn, trace>>

\* The effect of after_render_end_capture when build registered it.
RunEndCapture ==
    IF "after_render_end_capture" \in systems
    THEN LET r == after_render_end_capture(RenderDocData) IN
         /\ capture_requested' = r.capture_requested
         /\ is_capture_active' = r.is_capture_active
         /\ ends' = ends + r.ended
    ELSE UNCHANGED <<capture_requested, is_capture_active, ends>>

\* Extraction: the main schedule of the frame is done and the render
\* sub-app has finished the previous cycle.  Afterwards the main schedule
\* starts the next frame while the render sub-app renders this one.
Extract ==
    /\ app = "running"
    /\ mainPc = "Done"
    /\ renderPc = "Idle"
    /\ frame < MaxFrames
    /\ RunExtractSchedule
    /\ frame' = frame + 1
    /\ mainPc' = "PreUpdate"
    /\ renderPc' = "Render"
    /\ UNCHANGED <<key_code, my_system, app, systems, resources, ends, events,
                   pressed, just_pressed, requestedIn, requestedAt, held, hookCalls>>

\* Render schedule, RenderSet::Render.
Render ==
    /\ app = "running"
    /\ renderPc = "Render"
    /\ renderPc' = "EndCapture"
    /\ UNCHANGED <<key_code, my_system, app, systems, resources,
                   capture_requested, is_capture_active, begins, ends, events,
                   pressed, just_pressed, frame, mainPc, requestedIn, requestedAt, beganIn,
                   held, hookCalls, trace>>

\* Render schedule, after RenderSet::Render and before RenderSet::Cleanup.
EndCapture ==
    /\ app = "running"
    /\ renderPc = "EndCapture"
    /\ RunEndCapture
    /\ renderPc' = "Cleanup"
    /\ UNCHANGED <<key_code, my_system, app, systems, resources, begins,
                   events, pressed, just_pressed, frame, mainPc, requestedIn, requestedAt,
                   beganIn, held, hookCalls, trace>>

\* Render schedule, RenderSet::Cleanup.
Cleanup ==
    /\ app = "running"
    /\ renderPc = "Cleanup"
    /\ renderPc' = "Idle"
    /\ UNCHANGED <<key_code, my_system, app, systems, resources,
                   capture_requested, is_capture_active, begins, ends, events,
                   pressed, just_pressed, frame, mainPc, requestedIn, requestedAt, beganIn,
                   held, hookCalls, trace>>

Next ==
    \/ BuildErr
    \/ BuildOk
    \/ KeyEvent
    \/ PreUpdate
    \/ Update
    \/ PostUpdate
    \/ Extract
    \/ Render
    \/ EndCapture
    \/ Cleanup

Spec == Init /\ [][Next]_vars


\* ------------------------------------- SpecWired: controller with a trigger
\* The state build leaves after RenderDoc::new() returned Ok, with one
\* addition: a RenderDocTrigger whose Arc<AtomicBool> is
\* RenderDocData.capture_requested is held by the application.
InitWired ==
    /\ key_code = new_without_trigger
    /\ my_system = FALSE
    /\ app = "running"
    /\ systems = build_systems(new_without_trigger)
    /\ resources = build_resources \cup {"RenderDocTrigger"}
    /\ capture_requested = FALSE
    /\ is_capture_active = FALSE
    /\ begins = 0
    /\ ends = 0
    /\ events = <<>>
    /\ pressed = {}
    /\ just_pressed = {}
    /\ frame = 1
    /\ mainPc = "PreUpdate"
    /\ renderPc = "Idle"
    /\ requestedIn = 0
    /\ requestedAt = "Idle"
    /\ beganIn = 0
    /\ held = 0
    /\ hookCalls = 0
    /\ trace = <<>>

\* RenderDocTrigger::capture called by a holder of the trigger, from any
\* thread, at any position of the render cycle.
RequestCapture ==
    /\ app = "running"
    /\ "RenderDocTrigger" \in resources
    /\ Len(trace) < MaxOps
    /\ capture_requested' = capture(capture_requested)
    /\ trace' = Append(trace, "R")
    /\ requestedIn' = frame
    /\ requestedAt' = renderPc
    /\ UNCHANGED <<key_code, my_system, app, systems, resources,
                   is_capture_active, begins, ends, events, pressed,
                   just_pressed, frame, mainPc, renderPc, beganIn, held,
                   hookCalls>>

\* ExtractSchedule of the next render cycle: start_capture.
ExtractStage ==
    /\ app = "running"
    /\ renderPc = "Idle"
    /\ Len(trace) < MaxOps
    /\ RunExtractSchedule
    /\ frame' = frame + 1
    /\ renderPc' = "Render"
    /\ UNCHANGED <<key_code, my_system, app, systems, resources, ends, events,
                   pressed, just_pressed, mainPc, requestedIn, requestedAt,
                   held, hookCalls>>

NextWired ==
    \/ RequestCapture
    \/ ExtractStage
    \/ Render
    \/ EndCapture
    \/ Cleanup

SpecWired == InitWired /\ [][NextWired]_vars

\* The host runs every system of the Render schedule in each cycle, so a
\* cycle that was extracted is rendered, ended and cleaned up.
SpecWiredFair ==
    /\ SpecWired
    /\ WF_vars(Render)
    /\ WF_vars(EndCapture)
    /\ WF_vars(Cleanup)

\* ------------------------------ SpecAnyOrder: the systems in any order
\* start_capture invoked at any moment.
HookStart ==
    /\ app = "running"
    /\ Len(trace) < MaxOps
    /\ RunExtractSchedule
    /\ UNCHANGED <<key_code, my_system, app, systems, resources, ends, events,
                   pressed, just_pressed, frame, mainPc, renderPc, requestedIn,
                   requestedAt, held, hookCalls>>

\* after_render_end_capture invoked at any moment.
HookEnd ==
    /\ app = "running"
    /\ RunEndCapture
    /\ UNCHANGED <<key_code, my_system, app, systems, resources, begins,
                   events, pressed, just_pressed, frame, mainPc, renderPc,
                   requestedIn, requestedAt, beganIn, held, hookCalls, trace>>

NextAnyOrder ==
    \/ RequestCapture
    \/ HookStart
    \/ HookEnd

SpecAnyOrder == InitWired /\ [][NextAnyOrder]_vars

\* ------------------------------------------------- history of the latch
IsConsume(op) == op \in {"T", "F"}

\* consumes of the trace that returned true
Trues(t) == Cardinality({i \in 1..Len(t) : t[i] = "T"})

\* contiguous bursts of requests in the trace
Bursts(t) ==
    Cardinality({i \in 1..Len(t) : t[i] = "R" /\ (i = 1 \/ t[i-1] # "R")})

\* contiguous bursts of requests that a consume follows
BurstsConsumed(t) ==
    Cardinality({i \in 1..Len(t) : t[i] = "R" /\ i < Len(t) /\ t[i+1] # "R"})

\* ---------------------------------------------------------------- claims
\* C1 (as claimed): when the application's capturing system (the crate
\* docs' my_system, whose body calls RenderDocTrigger::capture) is run by
\* the main schedule of cycle N on an app whose plugin loaded RenderDoc,
\* the start_capture of cycle N begins a capture in that cycle.
C1_EndToEndTrigger ==
    ("start_capture" \in systems /\ requestedIn > 0 /\ frame > requestedIn)
        => beganIn = requestedIn

\* C2 (as claimed): the number of consumes that returned true equals the
\* number of contiguous bursts of requests.
C2_TruesEqualBursts == Trues(trace) = Bursts(trace)

\* C2 (amended): the number of consumes that returned true equals the
\* number of contiguous bursts of requests that a consume follows (a
\* trailing burst is still pending: the latch is set); three requests and
\* then two consumes yield (true, false).
C2_Collapsing ==
    /\ Trues(trace) = BurstsConsumed(trace)
    /\ Trues(trace) + (IF capture_requested THEN 1 ELSE 0) = Bursts(trace)
    /\ (Len(trace) >= 5 /\ SubSeq(trace, 1, 3) = <<"R", "R", "R">>
          /\ IsConsume(trace[4]) /\ IsConsume(trace[5]))
         => SubSeq(trace, 4, 5) = <<"T", "F">>

C2_Witness == trace = <<"R", "R", "R", "T", "F">>

C4_SessionBracketing ==
    /\ ~is_capture_active => begins = ends
    /\ is_capture_active => begins = ends + 1

C4_Witness == ~is_capture_active /\ begins = 2 /\ ends = 2

\* C5: is_capture_active is false whenever an extraction stage can begin,
\* and no native begin call is made while is_capture_active is true.
C5_NoOverlap ==
    /\ [](renderPc = "Idle" => ~is_capture_active)
    /\ [][begins' # begins => ~is_capture_active]_vars

C5_Witness ==
    /\ renderPc = "Idle" /\ capture_requested
    /\ begins = 1 /\ ends = 1 /\ ~is_capture_active

\* C6: a request issued while cycle N is rendering (after its start_capture)
\* stays in the latch for the rest of cycle N, during which it begins no
\* capture and keeps none open, and the start_capture of cycle N+1
\* consumes it and begins a capture.
C6_LateRequestDeferred ==
    requestedAt \in {"Render", "EndCapture", "Cleanup"} =>
        /\ frame = requestedIn =>
              /\ capture_requested
              /\ beganIn < requestedIn
              /\ renderPc \in {"Cleanup", "Idle"} => ~is_capture_active
        /\ frame > requestedIn => beganIn = requestedIn

C6_Witness ==
    /\ requestedAt = "EndCapture"
    /\ frame = requestedIn + 1
    /\ beganIn = requestedIn
    /\ is_capture_active
    /\ ends >= 1

\* C7 (as claimed): when RenderDoc could not be loaded nothing is
\* registered, no native call is ever made, and running application code
\* that requests a capture is harmless: no capture and no failure of the
\* application.
C7_DisabledTool ==
    (app # "constructed" /\ "RenderDocData" \notin resources) =>
        /\ systems = {}
        /\ begins = 0 /\ ends = 0
        /\ ~capture_requested /\ ~is_capture_active
        /\ app # "panicked"

\* C8 (as claimed): a native begin call issued while a session is already
\* active comes with a reaction: the controller fails loudly or closes the
\* stale session with a native end call.
C8_DoubleActivationSignalled ==
    [][(is_capture_active /\ begins' # begins)
          => (app' = "panicked" \/ ends' # ends)]_vars

\* C9 (as claimed): with the hook registered, while the bound key is held
\* down after having been released, the hook has made exactly one
\* capture() call, on the press-transition frame; in particular after
\* HeldFrames consecutive frames.
C9_EdgeTriggeredHook ==
    ("key_hook" \in systems /\ held >= 1 /\ held <= HeldFrames)
        => hookCalls = 1

\* C10 (as claimed): without a trigger key no hook is registered and no
\* key ever requests a capture; with trigger key K a hook run requests a
\* capture exactly when K (and no other key) was pressed in that frame;
\* the default plugin is the plugin with trigger key F10.
C10_HookConfiguration ==
    /\ [](key_code = NoKey => ("key_hook" \notin systems /\ hookCalls = 0))
    /\ [](Default = new_with_trigger_key("F10"))
    /\ [][("key_hook" \in systems /\ mainPc = "PostUpdate" /\ mainPc' = "Done")
            => trace' = (IF key_code \in just_pressed
                         THEN Append(trace, "R") ELSE trace)]_vars

\* the latest operation on the latch, "none" before the first
LastOp(t) == IF t = <<>> THEN "none" ELSE t[Len(t)]

\* the step is a run of start_capture (a consume is added to the history)
ConsumeStep == Len(trace') = Len(trace) + 1 /\ IsConsume(LastOp(trace'))

\* C11: a start_capture that runs while the latch is false reads false,
\* leaves the latch false and is_capture_active as it was, and makes no
\* native begin call; a native begin call is made only by a start_capture
\* that follows a request with no consume in between, so none is made
\* while no request has been issued.
C11_ConsumeNothingPending ==
    /\ [][(ConsumeStep /\ ~capture_requested) =>
            /\ LastOp(trace') = "F"
            /\ ~capture_requested'
            /\ is_capture_active' = is_capture_active
            /\ begins' = begins /\ ends' = ends]_vars
    /\ [][begins' # begins => (ConsumeStep /\ LastOp(trace) = "R")]_vars
    /\ [](Bursts(trace) = 0 => (begins = 0 /\ ~is_capture_active))

C11_Witness ==
    /\ Len(trace) >= 3
    /\ SubSeq(trace, Len(trace) - 2, Len(trace)) = <<"R", "T", "F">>
    /\ is_capture_active
    /\ begins = 1 /\ ends = 0

\* C12: a native begin call made by the start_capture of cycle N is
\* followed by a native end call made by after_render_end_capture in the
\* same cycle N, after its render stage and before its cleanup stage: the
\* session is open only while cycle N is in its render or end-capture
\* position, no other begin call is made while it is open, and it is
\* eventually closed.
C12_OneFramePerCapture ==
    /\ [](is_capture_active =>
            /\ renderPc \in {"Render", "EndCapture"}
            /\ beganIn = frame - 1
            /\ begins = ends + 1)
    /\ [][begins' # begins =>
            /\ renderPc = "Idle" /\ renderPc' = "Render"
            /\ begins = ends /\ begins' = begins + 1]_vars
    /\ [][ends' # ends =>
            /\ renderPc = "EndCapture" /\ renderPc' = "Cleanup"
            /\ beganIn = frame - 1
            /\ ends' = begins]_vars
    /\ (is_capture_active ~> (~is_capture_active /\ ends = begins))

C12_Witness ==
    /\ renderPc = "Cleanup"
    /\ beganIn = frame - 1
    /\ begins = 2 /\ ends = 2

\* the step is a run of after_render_end_capture in its cycle
EndCaptureStep == renderPc = "EndCapture" /\ renderPc' = "Cleanup"

\* C13: a run of after_render_end_capture with is_capture_active false
\* makes no native end call and leaves is_capture_active and the latch as
\* they were; with is_capture_active true it sets it to false and makes
\* exactly one native end call (and leaves the latch as it was).
C13_EndCaptureEffect ==
    [][EndCaptureStep =>
          /\ capture_requested' = capture_requested
          /\ begins' = begins
          /\ IF is_capture_active
             THEN ~is_capture_active' /\ ends' = ends + 1
             ELSE ~is_capture_active' /\ ends' = ends]_vars

C13_Witness ==
    /\ renderPc = "Cleanup"
    /\ capture_requested
    /\ begins = 1 /\ ends = 1
    /\ beganIn < frame - 1

\* the latest burst of requests in the history: its first and last index
LastRequest(t) == CHOOSE j \in 1..Len(t) :
                     t[j] = "R" /\ \A k \in (j+1)..Len(t) : t[k] # "R"
BurstStart(t, j) == CHOOSE i \in 1..j :
                     /\ \A k \in i..j : t[k] = "R"
                     /\ (i = 1 \/ t[i-1] # "R")

\* the latest request arrived while a capture was active: the consume
\* before its burst returned true and the render sub-app had not yet run
\* after_render_end_capture
RequestedWhileActive ==
    /\ requestedIn > 0
    /\ requestedAt \in {"Render", "EndCapture"}
    /\ LET i == BurstStart(trace, LastRequest(trace)) IN
          i > 1 /\ trace[i-1] = "T"

\* C14: the latch is cleared only by the start_capture of an extraction;
\* a request that arrives while the capture of cycle N is active stays in
\* the latch after that capture has ended, is consumed by the
\* start_capture of cycle N+1, which begins a capture, and begins no
\* capture after that one.
C14_RequestSurvivesEnd ==
    /\ [][(capture_requested /\ ~capture_requested') =>
            (renderPc = "Idle" /\ renderPc' = "Render" /\ ConsumeStep)]_vars
    /\ [](RequestedWhileActive =>
            LET j == LastRequest(trace) IN
            /\ j = Len(trace) => (capture_requested /\ frame = requestedIn)
            /\ j < Len(trace) =>
                  /\ trace[j+1] = "T"
                  /\ beganIn = requestedIn
                  /\ \A k \in (j+2)..Len(trace) : trace[k] = "F")
    /\ [](begins = Trues(trace))

C14_Witness ==
    /\ RequestedWhileActive
    /\ requestedAt = "Render"
    /\ Len(trace) = LastRequest(trace) + 2
    /\ begins = 2 /\ ends = 2
====
